---- MODULE Spec2Model ----
(***************************************************************************)
(* A model of claude-debugger.py: the command runner, the nine checks and  *)
(* the orchestrator.  Text is modelled as sequences of one-character       *)
(* strings, so that slicing, trimming, splitting and substring search are  *)
(* computed as Python computes them.                                       *)
(***************************************************************************)
EXTENDS Integers, Sequences, FiniteSets, TLC

VARIABLES
    pc,               \* position of the running function
    environ,          \* os.environ as a sequence of <<key, value>> items
    env_i,            \* index of the next os.environ item to visit
    claude_env_vars,  \* check_environment's list of formatted entries
    env_out,          \* lines check_environment printed after its header
    cmd,              \* run_command's argument
    proc,             \* what subprocess.run did with it
    result,           \* run_command's return value
    ps_table,         \* the process table "ps auxww" lists
    ps_stdout,        \* stdout of the listing pipeline (line 165)
    sessions,         \* the session records (line 171)
    sess_i,           \* index of the next session to report
    launch_msg,       \* the line printed when there is nothing to report
    launch_out,       \* what was printed for each session
    shells_out,       \* number of parent shell lines printed (line 252)
    hist_i,           \* index of the next history file
    found_history,    \* line 266
    hist_out,         \* what was printed for each history file
    hist_none,        \* whether the "No recent Claude commands" line was printed
    claude_path,      \* shutil.which("claude")
    config_files,     \* the three candidate configuration files
    cfg_i,            \* index of the next configuration path
    cli_out,          \* what check_claude_cli printed
    packages,         \* what the import system holds for each candidate package
    sdk_i,            \* index of the next candidate package
    probed,           \* the candidates find_spec was called for
    found_sdks,       \* line 92
    sdk_out,          \* what check_claude_sdk printed
    unsearchable,     \* the directories the user may not search
    on_path,          \* whether "claude" is on the search path
    ran               \* the checks main has called, in order

vars_env == <<environ, env_i, claude_env_vars, env_out>>

vars_run == <<cmd, proc, result>>

vars_launch == <<ps_table, ps_stdout, sessions, sess_i, launch_msg, launch_out>>

vars_hist == <<shells_out, hist_i, found_history, hist_out, hist_none>>

vars_cli == <<claude_path, config_files, cfg_i, cli_out>>

vars_sdk == <<packages, sdk_i, probed, found_sdks, sdk_out>>

vars_main == <<unsearchable, on_path, ran>>

vars == <<pc, vars_env, vars_run, vars_launch, vars_hist, vars_cli, vars_sdk, vars_main>>

\* the variables of a function that is not running keep these values
IdleEnv == environ = <<>> /\ env_i = 0 /\ claude_env_vars = <<>> /\ env_out = <<>>

IdleRun == cmd = "" /\ proc = "" /\ result = <<>>

IdleLaunch == ps_table = <<>> /\ ps_stdout = <<>> /\ sessions = <<>> /\ sess_i = 0 /\ launch_msg = "" /\ launch_out = <<>>

IdleHist == shells_out = 0 /\ hist_i = 0 /\ found_history = FALSE /\ hist_out = <<>> /\ hist_none = FALSE

IdleCli == claude_path = "" /\ config_files = <<>> /\ cfg_i = 0 /\ cli_out = <<>>

IdleSdk == packages = <<>> /\ sdk_i = 0 /\ probed = <<>> /\ found_sdks = <<>> /\ sdk_out = <<>>

IdleMain == unsearchable = {} /\ on_path = FALSE /\ ran = <<>>

others_env == <<vars_run, vars_launch, vars_hist, vars_cli, vars_sdk, vars_main>>

IdleButEnv == IdleRun /\ IdleLaunch /\ IdleHist /\ IdleCli /\ IdleSdk /\ IdleMain

others_run == <<vars_env, vars_launch, vars_hist, vars_cli, vars_sdk, vars_main>>

IdleButRun == IdleEnv /\ IdleLaunch /\ IdleHist /\ IdleCli /\ IdleSdk /\ IdleMain

others_launch == <<vars_env, vars_run, vars_hist, vars_cli, vars_sdk, vars_main>>

IdleButLaunch == IdleEnv /\ IdleRun /\ IdleHist /\ IdleCli /\ IdleSdk /\ IdleMain

others_hist == <<vars_env, vars_run, vars_launch, vars_cli, vars_sdk, vars_main>>

IdleButHist == IdleEnv /\ IdleRun /\ IdleLaunch /\ IdleCli /\ IdleSdk /\ IdleMain

others_cli == <<vars_env, vars_run, vars_launch, vars_hist, vars_sdk, vars_main>>

IdleButCli == IdleEnv /\ IdleRun /\ IdleLaunch /\ IdleHist /\ IdleSdk /\ IdleMain

others_sdk == <<vars_env, vars_run, vars_launch, vars_hist, vars_cli, vars_main>>

IdleButSdk == IdleEnv /\ IdleRun /\ IdleLaunch /\ IdleHist /\ IdleCli /\ IdleMain

others_main == <<vars_env, vars_run, vars_launch, vars_hist, vars_cli, vars_sdk>>

IdleButMain == IdleEnv /\ IdleRun /\ IdleLaunch /\ IdleHist /\ IdleCli /\ IdleSdk

(***************************************************************************)
(* Text helpers (Python str operations)                                    *)
(***************************************************************************)
Min(a, b) == IF a < b THEN a ELSE b

Max(a, b) == IF a > b THEN a ELSE b

Lower == <<"a", "b", "c", "d", "e", "f", "g", "h", "i", "j", "k", "l", "m", "n", "o", "p", "q", "r", "s", "t", "u", "v", "w", "x", "y", "z">>

UpperCase == <<"A", "B", "C", "D", "E", "F", "G", "H", "I", "J", "K", "L", "M", "N", "O", "P", "Q", "R", "S", "T", "U", "V", "W", "X", "Y", "Z">>

\* str.upper() on one character
UpperChar(c) ==
    IF \E i \in 1..Len(Lower) : Lower[i] = c
    THEN UpperCase[CHOOSE i \in 1..Len(Lower) : Lower[i] = c]
    ELSE c

\* str.upper()
Upper(s) == [i \in 1..Len(s) |-> UpperChar(s[i])]

\* sub in s
Contains(s, sub) ==
    \E i \in 0..(Len(s) - Len(sub)) : SubSeq(s, i + 1, i + Len(sub)) = sub

\* s.startswith(p)
StartsWith(s, p) == Len(s) >= Len(p) /\ SubSeq(s, 1, Len(p)) = p

\* s[:n]
Prefix(s, n) == SubSeq(s, 1, Min(n, Len(s)))

\* s[-n:]
Suffix(s, n) == SubSeq(s, Max(1, Len(s) - n + 1), Len(s))

\* str.isspace() on one character
IsSpace(c) == c \in {" ", "\t", "\n"}

\* the first index from i on that holds no whitespace, Len(s) + 1 if none
RECURSIVE SkipSpace(_, _)
SkipSpace(s, i) == IF i <= Len(s) /\ IsSpace(s[i]) THEN SkipSpace(s, i + 1) ELSE i

\* the first index from i on that holds whitespace, Len(s) + 1 if none
RECURSIVE SkipWord(_, _)
SkipWord(s, i) == IF i <= Len(s) /\ ~IsSpace(s[i]) THEN SkipWord(s, i + 1) ELSE i

\* the last index up to i that holds no whitespace, 0 if none
RECURSIVE LastWord(_, _)
LastWord(s, i) == IF i >= 1 /\ IsSpace(s[i]) THEN LastWord(s, i - 1) ELSE i

\* str.lstrip()
LStrip(s) == SubSeq(s, SkipSpace(s, 1), Len(s))

\* str.rstrip()
RStrip(s) == SubSeq(s, 1, LastWord(s, Len(s)))

\* str.strip()
Strip(s) == LStrip(RStrip(s))

\* index of the first occurrence of character c in s, 0 when there is none
RECURSIVE FindChar(_, _, _)
FindChar(s, c, i) ==
    IF i > Len(s) THEN 0 ELSE IF s[i] = c THEN i ELSE FindChar(s, c, i + 1)

\* s.split(c): every piece between occurrences of the character c
RECURSIVE SplitChar(_, _)
SplitChar(s, c) ==
    LET k == FindChar(s, c, 1)
    IN  IF k = 0 THEN <<s>>
        ELSE <<SubSeq(s, 1, k - 1)>> \o SplitChar(SubSeq(s, k + 1, Len(s)), c)

\* s[i:].split(None, maxsplit): maxsplit < 0 means no limit.  After maxsplit
\* splits the remainder is kept whole, leading whitespace removed.
RECURSIVE SplitWsFrom(_, _, _)
SplitWsFrom(s, i, maxsplit) ==
    LET a == SkipSpace(s, i)
        b == SkipWord(s, a)
    IN  IF a > Len(s) THEN <<>>
        ELSE IF maxsplit = 0 THEN <<SubSeq(s, a, Len(s))>>
        ELSE <<SubSeq(s, a, b - 1)>> \o SplitWsFrom(s, b, maxsplit - 1)

\* s.split(None, maxsplit)
SplitWs(s, maxsplit) == SplitWsFrom(s, 1, maxsplit)

\* sep.join(parts)
RECURSIVE Join(_, _)
Join(parts, sep) ==
    IF parts = <<>> THEN <<>>
    ELSE IF Len(parts) = 1 THEN parts[1]
    ELSE parts[1] \o sep \o Join(Tail(parts), sep)

\* n copies of the character c
Repeat(c, n) == [i \in 1..n |-> c]

(***************************************************************************)
(* check_environment                                                       *)
(***************************************************************************)
MaxLen == 10

MaxEnv == 1

W_CLAUDE == <<"C", "L", "A", "U", "D", "E">>

W_ANTHROPIC == <<"A", "N", "T", "H", "R", "O", "P", "I", "C">>

W_KEY == <<"K", "E", "Y">>

W_TOKEN == <<"T", "O", "K", "E", "N">>

W_SECRET == <<"S", "E", "C", "R", "E", "T">>

Ellipsis == <<".", ".", ".">>

MaskToken == <<"*", "*", "*">>

\* the names of the environment variables the model draws from
EnvKeys ==
    { <<"A", "N", "T", "H", "R", "O", "P", "I", "C", "_", "A", "P", "I", "_", "K", "E", "Y">>,
      <<"c", "l", "a", "u", "d", "e", "_", "t", "o", "k", "e", "n">>,
      <<"C", "L", "A", "U", "D", "E", "_", "H", "O", "M", "E">>,
      <<"A", "P", "I", "_", "K", "E", "Y">> }

\* the values: n distinct letters, n times "a", n times "*", n up to MaxLen
EnvValues ==
    UNION { { SubSeq(Lower, 1, n), Repeat("a", n), Repeat("*", n) } : n \in 0..MaxLen }

\* line 131
IsSelected(key) ==
    Contains(Upper(key), W_CLAUDE) \/ Contains(Upper(key), W_ANTHROPIC)

\* line 133
IsCredential(key) ==
    \/ Contains(Upper(key), W_KEY)
    \/ Contains(Upper(key), W_TOKEN)
    \/ Contains(Upper(key), W_SECRET)

\* a plausible slip: value[-3:] instead of value[-4:]
MaskValueShortSuffix(value) ==
    IF Len(value) > 8 THEN Prefix(value, 4) \o Ellipsis \o Suffix(value, 3) ELSE MaskToken

\* a plausible slip: >= 8 instead of > 8
MaskValueInclusive(value) ==
    IF Len(value) >= 8 THEN Prefix(value, 4) \o Ellipsis \o Suffix(value, 4) ELSE MaskToken

\* line 134
MaskValue(value) ==
    IF Len(value) > 8 THEN Prefix(value, 4) \o Ellipsis \o Suffix(value, 4) ELSE MaskToken

\* lines 133-137: the text after "key=" of the entry appended for an item
PrintedValue(key, value) == IF IsCredential(key) THEN MaskValue(value) ELSE value

\* f"{key}={...}"
FormatEntry(key, value) == key \o <<"=">> \o PrintedValue(key, value)

InitEnv ==
    /\ pc = "env_loop"
    /\ environ \in UNION { [1..n -> EnvKeys \X EnvValues] : n \in 0..MaxEnv }
    \* os.environ is a mapping: no name occurs twice
    /\ \A i, j \in 1..Len(environ) : environ[i][1] = environ[j][1] => i = j
    /\ env_i = 1
    /\ claude_env_vars = <<>>
    /\ env_out = <<>>
    /\ IdleButEnv

\* lines 130-137: one iteration of the loop over os.environ.items()
EnvLoopStep ==
    /\ pc = "env_loop"
    /\ env_i <= Len(environ)
    /\ LET key == environ[env_i][1]
           value == environ[env_i][2]
       IN  claude_env_vars' =
               IF IsSelected(key)
               THEN Append(claude_env_vars, FormatEntry(key, value))
               ELSE claude_env_vars
    /\ env_i' = env_i + 1
    /\ UNCHANGED <<pc, environ, env_out, others_env>>

\* lines 139-144: the report
EnvPrint ==
    /\ pc = "env_loop"
    /\ env_i > Len(environ)
    /\ env_out' = IF claude_env_vars # <<>> THEN claude_env_vars ELSE <<<<"none">>>>
    /\ pc' = "env_done"
    /\ UNCHANGED <<environ, env_i, claude_env_vars, others_env>>

NextEnv == EnvLoopStep \/ EnvPrint

SpecEnv == InitEnv /\ [][NextEnv]_vars

\* the items of os.environ that check_environment reports, in order
SelectedItems == SelectSeq(environ, LAMBDA item : IsSelected(item[1]))

\* the text printed after "key=" for the k-th reported item
PrintedOf(k) ==
    LET key == SelectedItems[k][1]
    IN  SubSeq(env_out[k], Len(key) + 2, Len(env_out[k]))

\* the characters between the first 4 and the last 4
Middle(value) == SubSeq(value, 5, Len(value) - 4)

LongCredentials ==
    { k \in 1..Len(SelectedItems) :
        IsCredential(SelectedItems[k][1]) /\ Len(SelectedItems[k][2]) > 8 }

ShortCredentials ==
    { k \in 1..Len(SelectedItems) :
        IsCredential(SelectedItems[k][1]) /\ Len(SelectedItems[k][2]) <= 8 }

\* C1 (as amended): every reported credential variable whose value is longer
\* than 8 characters is printed as its first 4 characters, "...", and its last
\* 4 characters: 11 characters whatever the value's length.
C1_MaskedLong ==
    pc = "env_done" =>
        \A k \in LongCredentials :
            LET value == SelectedItems[k][2]
            IN  /\ PrintedOf(k) = SubSeq(value, 1, 4) \o Ellipsis
                                    \o SubSeq(value, Len(value) - 3, Len(value))
                /\ Len(PrintedOf(k)) = 11

C1_Witness ==
    /\ pc = "env_done"
    /\ \E k \in LongCredentials :
          /\ SelectedItems[k][2] = SubSeq(Lower, 1, 10)
          /\ PrintedOf(k) = <<"a", "b", "c", "d", ".", ".", ".", "g", "h", "i", "j">>

\* C1 (as stated): ... and the printed value never contains the characters
\* between the first 4 and the last 4 of the value.
C1_NeverContainsMiddle ==
    pc = "env_done" =>
        \A k \in LongCredentials :
            LET value == SelectedItems[k][2]
            IN  /\ PrintedOf(k) = SubSeq(value, 1, 4) \o Ellipsis
                                    \o SubSeq(value, Len(value) - 3, Len(value))
                /\ ~Contains(PrintedOf(k), Middle(value))

\* C2 (as amended): every reported credential variable whose value has at most
\* 8 characters (the empty value included) is printed as exactly "***", which
\* differs from the original value unless the value is itself "***".
C2_MaskedShort ==
    pc = "env_done" =>
        \A k \in ShortCredentials :
            LET value == SelectedItems[k][2]
            IN  /\ PrintedOf(k) = MaskToken
                /\ (value # MaskToken => PrintedOf(k) # value)

C2_Witness ==
    /\ pc = "env_done"
    /\ \E k \in ShortCredentials :
          /\ Len(SelectedItems[k][2]) = 8
          /\ PrintedOf(k) = MaskToken

\* C2 (as stated): ... the printed value is exactly "***" and is never the
\* original value.
C2_NeverOriginal ==
    pc = "env_done" =>
        \A k \in ShortCredentials :
            /\ PrintedOf(k) = MaskToken
            /\ PrintedOf(k) # SelectedItems[k][2]

(***************************************************************************)
(* run_command                                                             *)
(***************************************************************************)
Timeout == 5

MaxDuration == 6

TimedOutMessage == <<"C", "o", "m", "m", "a", "n", "d", " ", "t", "i", "m", "e", "d", " ", "o", "u", "t">>

\* what /bin/sh writes for a command it cannot find; it then exits with 127
ShellNotFound == <<"s", "h", ":", " ", "n", "o", "t", " ", "f", "o", "u", "n", "d", "\n">>

RawStdout == { <<>>, <<"o", "u", "t">>, <<" ", " ", "o", "u", "t", "\n">>, <<"\n">> }

RawStderr == { <<>>, <<"w", "a", "r", "n", "\n">> }

ExitCodes == {0, 1, 2, -15}

\* the exceptions subprocess.run raises besides TimeoutExpired, with str(e)
Failures ==
    { [exc |-> "OSError", msg |-> <<"E", "N", "O", "M", "E", "M">>],
      [exc |-> "ValueError", msg |-> <<"n", "u", "l", "l", " ", "b", "y", "t", "e">>],
      [exc |-> "UnicodeDecodeError", msg |-> <<"b", "a", "d", " ", "b", "y", "t", "e">>] }

\* the commands: one the shell finds or not, running for `seconds`
Commands ==
    { [found |-> TRUE, seconds |-> d] : d \in 0..MaxDuration }
        \cup { [found |-> FALSE, seconds |-> 0] }

\* line 18: subprocess.run(cmd, shell=True, capture_output=True, text=True,
\* timeout=5) either fails to run the shell or to decode its output, or
\* times out, or completes with the shell's output and exit status
SubprocessRun(c) ==
    { [kind |-> "raised", exc |-> f.exc, msg |-> f.msg] : f \in Failures }
        \cup
    ( IF c.seconds > Timeout
      THEN { [kind |-> "raised", exc |-> "TimeoutExpired", msg |-> <<"t", "i", "m", "e", "o", "u", "t">>] }
      ELSE IF ~c.found
      THEN { [kind |-> "completed", stdout |-> <<>>, stderr |-> ShellNotFound,
              returncode |-> 127] }
      ELSE { [kind |-> "completed", stdout |-> o, stderr |-> e, returncode |-> rc] :
                 o \in RawStdout, e \in RawStderr, rc \in ExitCodes } )

\* a plausible slip: only launch failures are caught
CaughtOnlyOSError(exc) == exc = "OSError"

\* line 22, except Exception: every failure subprocess.run raises is an Exception
CaughtAsException(exc) ==
    exc \in {"OSError", "ValueError", "UnicodeDecodeError", "TimeoutExpired"}

\* lines 20-23: whether the exception leaves run_command
Escapes(p) ==
    p.kind = "raised" /\ p.exc # "TimeoutExpired" /\ ~CaughtAsException(p.exc)

\* lines 17-23: the returned triple
RunCommandResult(p) ==
    IF p.kind = "completed"
    THEN <<Strip(p.stdout), Strip(p.stderr), p.returncode>>
    ELSE IF p.exc = "TimeoutExpired" THEN <<<<>>, TimedOutMessage, 1>>
    ELSE <<<<>>, p.msg, 1>>

InitRun ==
    /\ pc = "run_call"
    /\ cmd \in Commands
    /\ proc = ""
    /\ result = <<>>
    /\ IdleButRun

\* lines 15-23
run_command ==
    /\ pc = "run_call"
    /\ \E p \in SubprocessRun(cmd) :
          /\ proc' = p
          /\ IF Escapes(p)
             THEN pc' = "run_raised" /\ result' = <<>>
             ELSE pc' = "run_returned" /\ result' = RunCommandResult(p)
    /\ UNCHANGED <<cmd, others_run>>

NextRun == run_command

SpecRun == InitRun /\ [][NextRun]_vars

\* C3: run_command never lets an exception reach its caller and returns a
\* triple: the trimmed output and exit status on completion; empty output, a
\* timeout message and a non-zero status after more than 5 seconds; empty
\* output, the failure's text and status 1 on any other failure.  A command
\* that does not exist gives a non-zero status and a non-empty error text.
C3_RunCommandTotal ==
    /\ pc # "run_raised"
    /\ pc = "run_returned" =>
          /\ Len(result) = 3
          /\ proc.kind = "completed" =>
                /\ result[3] = proc.returncode
                /\ result[1] = Strip(proc.stdout) /\ result[2] = Strip(proc.stderr)
                /\ \A t \in {result[1], result[2]} :
                      t # <<>> => ~IsSpace(t[1]) /\ ~IsSpace(t[Len(t)])
          /\ (proc.kind = "raised" /\ proc.exc = "TimeoutExpired") =>
                result[1] = <<>> /\ result[2] = TimedOutMessage /\ result[3] # 0
          /\ (proc.kind = "raised" /\ proc.exc # "TimeoutExpired") =>
                result = <<<<>>, proc.msg, 1>>
          /\ cmd.seconds > Timeout =>
                proc.kind = "raised" /\ result[1] = <<>> /\ result[3] # 0
          /\ ~cmd.found => result[3] # 0 /\ result[2] # <<>>

C3_Witness ==
    /\ pc = "run_returned"
    /\ ~cmd.found
    /\ proc.kind = "completed"
    /\ result = <<<<>>, <<"s", "h", ":", " ", "n", "o", "t", " ", "f", "o", "u", "n", "d">>, 127>>

(***************************************************************************)
(* check_claude_launch_commands: the process listing and the sessions      *)
(***************************************************************************)
MaxLines == 2

W_claude == <<"c", "l", "a", "u", "d", "e">>

W_grep == <<"g", "r", "e", "p">>

W_ClaudeApp == <<"C", "l", "a", "u", "d", "e", ".", "a", "p", "p">>

W_VibeTunnel == <<"V", "i", "b", "e", "T", "u", "n", "n", "e", "l">>

W_claude_monitor == <<"c", "l", "a", "u", "d", "e", "-", "m", "o", "n", "i", "t", "o", "r">>

W_claude_debugger == <<"c", "l", "a", "u", "d", "e", "-", "d", "e", "b", "u", "g", "g", "e", "r">>

W_Yes == <<"Y", "e", "s">>

Dash == <<"-">>

SpaceDash == <<" ", "-">>

\* the lines "ps auxww" may print: USER PID %CPU %MEM VSZ RSS TTY STAT START
\* TIME COMMAND, and one truncated line
ProcessLines ==
    { <<"u", " ", "1", " ", "0", ".", "0", " ", "0", ".", "1", " ", "1", "0", " ", "2", "0", " ", "?", " ", "S", " ", "9", ":", "0", "1", " ", "0", ":", "0", "1", " ", "c", "l", "a", "u", "d", "e">>,
      <<"u", " ", "2", " ", "0", ".", "0", " ", "0", ".", "1", " ", "1", "0", " ", "2", "0", " ", "?", " ", "S", " ", "9", ":", "0", "2", " ", "0", ":", "0", "2", " ", "c", "l", "a", "u", "d", "e", " ", "-", "p", " ", "m", "y", "p", "r", "o", "j", " ", "-", "-", "d", "e", "b", "u", "g">>,
      <<"u", " ", "3", " ", "0", ".", "0", " ", "0", ".", "1", " ", "1", "0", " ", "2", "0", " ", "?", " ", "S", " ", "9", ":", "0", "3", " ", "0", ":", "0", "3", " ", "-", "-", "d", "e", "b", "u", "g", " ", "c", "l", "a", "u", "d", "e">>,
      <<"u", " ", "4", " ", "0", ".", "0", " ", "0", ".", "1", " ", "1", "0", " ", "2", "0", " ", "?", " ", "S", " ", "9", ":", "0", "4", " ", "0", ":", "0", "4", " ", "c", "l", "a", "u", "d", "e", "\t", "-", "-", "j", "s", "o", "n">>,
      <<"u", " ", "5", " ", "0", ".", "0", " ", "0", ".", "1", " ", "1", "0", " ", "2", "0", " ", "?", " ", "S", " ", "9", ":", "0", "5", " ", "0", ":", "0", "5", " ", "c", "l", "a", "u", "d", "e", " ", "-", "m", " ", "o", "p", "u", "s", " ", "-", "x", " ", "-", "-", "n", "o", "-", "c", "o", "l", "o", "r">>,
      <<"u", " ", "6", " ", "0", ".", "0", " ", "0", ".", "1", " ", "1", "0", " ", "2", "0", " ", "?", " ", "S", " ", "9", ":", "0", "6", " ", "0", ":", "0", "6", " ", "c", "l", "a", "u", "d", "e", " ", "-", "c", " ", "c", "f", "g", " ", "-", "h", " ", "-", "-", "n", "o", "-", "t", "e", "l", "e", "m", "e", "t", "r", "y", " ", "-", "p", " ", "-", "v">>,
      <<"u", " ", "7", " ", "0", ".", "0", " ", "0", ".", "1", " ", "1", "0", " ", "2", "0", " ", "?", " ", "S", " ", "9", ":", "0", "7", " ", "0", ":", "0", "7", " ", "c", "l", "a", "u", "d", "e", " ", " ", " ", "-", "-", "p", "r", "o", "j", "e", "c", "t", " ", " ", "w", "e", "b", " ", " ">>,
      <<"u", " ", "8", " ", "0", ".", "0", " ", "0", ".", "1", " ", "1", "0", " ", "2", "0", " ", "?", " ", "S", " ", "9", ":", "0", "8", " ", "0", ":", "0", "8", " ", "n", "o", "d", "e", " ", "c", "l", "a", "u", "d", "e", "-", "m", "o", "n", "i", "t", "o", "r">>,
      <<"u", " ", "9", " ", "0", ".", "0", " ", "0", ".", "1", " ", "1", "0", " ", "2", "0", " ", "?", " ", "S", " ", "9", ":", "0", "9", " ", "0", ":", "0", "9", " ", "V", "i", "b", "e", "T", "u", "n", "n", "e", "l", " ", "c", "l", "a", "u", "d", "e">>,
      <<"u", " ", "1", " ", "0", ".", "0", " ", "0", ".", "1", " ", "1", "0", " ", "2", "0", " ", "?", " ", "S", " ", "9", ":", "0", "1", " ", "0", ":", "0", "1", " ", "p", "y", "t", "h", "o", "n", " ", "c", "l", "a", "u", "d", "e", "-", "d", "e", "b", "u", "g", "g", "e", "r", ".", "p", "y", " ", "-", "v">>,
      <<"c", "l", "a", "u", "d", "e", " ", "3", " ", "0", ".", "0", " ", "0", ".", "1", " ", "1", "0", " ", "2", "0", " ", "?", " ", "S", " ", "9", ":", "0", "3", " ", "0", ":", "0", "3", " ", "v", "i", "m">>,
      <<"u", " ", "4", " ", "0", ".", "0", " ", "0", ".", "1", " ", "1", "0", " ", "2", "0", " ", "?", " ", "S", " ", "9", ":", "0", "4", " ", "0", ":", "0", "4", " ", "g", "r", "e", "p", " ", "c", "l", "a", "u", "d", "e">>,
      <<"c", "l", "a", "u", "d", "e", " ", "7", " ", "S">> }

\* line 165: grep -E 'claude' | grep -v grep | grep -v 'Claude.app'
PsPipeline(table) ==
    SelectSeq(table, LAMBDA line :
        /\ Contains(line, W_claude)
        /\ ~Contains(line, W_grep)
        /\ ~Contains(line, W_ClaudeApp))

\* the text a pipeline writes: every line followed by a newline
Unlines(lines) == IF lines = <<>> THEN <<>> ELSE Join(lines, <<"\n">>) \o <<"\n">>

\* a plausible slip: the helper processes are not filtered out
IsClaudeCommandNoExclusion(c) == Contains(c, W_claude)

\* line 183
IsClaudeCommand(c) ==
    /\ Contains(c, W_claude)
    /\ ~Contains(c, W_VibeTunnel)
    /\ ~Contains(c, W_claude_monitor)
    /\ ~Contains(c, W_claude_debugger)

\* lines 173-189: the sessions of the lines from the k-th on
RECURSIVE ParseSessions(_, _)
ParseSessions(lines, k) ==
    IF k > Len(lines) THEN <<>>
    ELSE LET line == lines[k]
             parts == SplitWs(line, 10)
             keep == /\ Strip(line) # <<>>
                     /\ Contains(line, W_claude)
                     /\ Len(parts) >= 11
                     /\ IsClaudeCommand(parts[11])
         IN  ( IF keep
               THEN << [pid |-> parts[2], start_time |-> parts[9],
                        cpu_time |-> parts[10], command |-> Strip(parts[11])] >>
               ELSE <<>> ) \o ParseSessions(lines, k + 1)

\* lines 214-231: what is printed for a flag, <<>> for one that is not known
Interpretation(flag, value) ==
    IF flag \in {<<"-", "p">>, <<"-", "-", "p", "r", "o", "j", "e", "c", "t">>}
    THEN << [label |-> "Project mode", text |-> IF value # <<>> THEN value ELSE W_Yes] >>
    ELSE IF flag \in {<<"-", "c">>, <<"-", "-", "c", "o", "n", "f", "i", "g">>}
    THEN << [label |-> "Config file", text |-> value] >>
    ELSE IF flag \in {<<"-", "m">>, <<"-", "-", "m", "o", "d", "e", "l">>}
    THEN << [label |-> "Model override", text |-> value] >>
    ELSE IF flag = <<"-", "-", "d", "e", "b", "u", "g">>
    THEN << [label |-> "Debug mode: Enabled", text |-> <<>>] >>
    ELSE IF flag = <<"-", "-", "n", "o", "-", "t", "e", "l", "e", "m", "e", "t", "r", "y">>
    THEN << [label |-> "Telemetry: Disabled", text |-> <<>>] >>
    ELSE IF flag = <<"-", "-", "n", "o", "-", "c", "o", "l", "o", "r">>
    THEN << [label |-> "Color output: Disabled", text |-> <<>>] >>
    ELSE IF flag = <<"-", "-", "j", "s", "o", "n">>
    THEN << [label |-> "JSON output: Enabled", text |-> <<>>] >>
    ELSE IF flag \in {<<"-", "h">>, <<"-", "-", "h", "e", "l", "p">>}
    THEN << [label |-> "Help mode", text |-> <<>>] >>
    ELSE IF flag \in {<<"-", "v">>, <<"-", "-", "v", "e", "r", "s", "i", "o", "n">>}
    THEN << [label |-> "Version check", text |-> <<>>] >>
    ELSE <<>>

\* lines 204-232: the while loop from index j on
RECURSIVE ParseArgs(_, _)
ParseArgs(cmd_parts, j) ==
    IF j > Len(cmd_parts) THEN <<>>
    ELSE IF StartsWith(cmd_parts[j], Dash)
    THEN LET has_value == j + 1 <= Len(cmd_parts) /\ ~StartsWith(cmd_parts[j + 1], Dash)
             value == IF has_value THEN cmd_parts[j + 1] ELSE <<>>
         IN  Interpretation(cmd_parts[j], value)
                 \o ParseArgs(cmd_parts, IF has_value THEN j + 2 ELSE j + 1)
    ELSE ParseArgs(cmd_parts, j + 1)

\* line 200
HasArguments(command) == Contains(command, SpaceDash)

\* lines 193-234: what is printed for a session, before its working directory
SessionReport(i, session) ==
    [ number |-> i,
      pid |-> session.pid,
      start_time |-> session.start_time,
      cpu_time |-> session.cpu_time,
      command |-> session.command,
      mode |-> IF HasArguments(session.command) THEN "Detected arguments"
               ELSE "Interactive (no arguments)",
      detected |-> IF HasArguments(session.command)
                   THEN ParseArgs(SplitWs(session.command, -1), 1)
                   ELSE <<>> ]

\* the working directories lsof may report for a process, <<>> for none
WorkingDirs == { <<>>, <<"/", "w">> }

InitLaunch ==
    /\ pc = "launch_ps"
    /\ ps_table \in UNION { [1..n -> ProcessLines] : n \in 0..MaxLines }
    /\ ps_stdout = <<>>
    /\ sessions = <<>>
    /\ sess_i = 0
    /\ launch_msg = ""
    /\ launch_out = <<>>
    /\ IdleButLaunch

\* lines 165-191, 242-245: the listing is run and parsed
LaunchListProcesses ==
    /\ pc = "launch_ps"
    /\ \E listed \in BOOLEAN :
          \* run_command gives "" when the listing timed out or failed
          LET stdout == IF listed THEN Strip(Unlines(PsPipeline(ps_table))) ELSE <<>>
              found == ParseSessions(SplitChar(stdout, "\n"), 1)
          IN  /\ ps_stdout' = stdout
              /\ sessions' = IF stdout # <<>> THEN found ELSE <<>>
              /\ IF stdout = <<>>
                 THEN /\ launch_msg' = "No Claude CLI processes detected"
                      /\ pc' = "launch_shells" /\ sess_i' = 0
                 ELSE IF found = <<>>
                 THEN /\ launch_msg' = "No active Claude CLI command sessions found"
                      /\ pc' = "launch_shells" /\ sess_i' = 0
                 ELSE /\ launch_msg' = "Active Claude CLI sessions and their launch commands:"
                      /\ pc' = "launch_sessions" /\ sess_i' = 1
    /\ launch_out' = <<>>
    /\ UNCHANGED <<ps_table, others_launch>>

\* lines 192-241: one iteration of the loop over the sessions
LaunchReportSession ==
    /\ pc = "launch_sessions"
    /\ sess_i <= Len(sessions)
    /\ \E cwd \in WorkingDirs :
          launch_out' = Append(launch_out,
              [report |-> SessionReport(sess_i, sessions[sess_i]), cwd |-> cwd])
    /\ sess_i' = sess_i + 1
    /\ pc' = IF sess_i = Len(sessions) THEN "launch_shells" ELSE "launch_sessions"
    /\ UNCHANGED <<ps_table, ps_stdout, sessions, launch_msg, others_launch>>

NextLaunch == LaunchListProcesses \/ LaunchReportSession

SpecLaunch == InitLaunch /\ [][NextLaunch]_vars

\* the lines the listing pipeline gave check_claude_launch_commands
MatchedLines == IF ps_stdout = <<>> THEN <<>> ELSE SplitChar(ps_stdout, "\n")

\* every whitespace-delimited field of a line
FieldsOf(line) == SplitWs(line, -1)

\* at least 11 fields, and from the 11th on the keyword and no helper's name
Qualifies(line) ==
    LET f == FieldsOf(line)
        command == SubSeq(f, 11, Len(f))
        Has(word) == \E i \in 1..Len(command) : Contains(command[i], word)
    IN  /\ Len(f) >= 11
        /\ Has(W_claude)
        /\ ~Has(W_VibeTunnel) /\ ~Has(W_claude_monitor) /\ ~Has(W_claude_debugger)

QualifyingLines == SelectSeq(MatchedLines, Qualifies)

\* the tokens of a reported session's command
TokensOf(k) == SplitWs(launch_out[k].report.command, -1)

\* the interpretations of the flags among tokens[i..], every token starting
\* with "-" being a flag and the next token, unless it starts with "-", its value
RECURSIVE ExpectedFrom(_, _)
ExpectedFrom(tokens, i) ==
    IF i > Len(tokens) THEN <<>>
    ELSE ( IF StartsWith(tokens[i], Dash)
           THEN Interpretation(tokens[i],
                    IF i < Len(tokens) /\ ~StartsWith(tokens[i + 1], Dash)
                    THEN tokens[i + 1] ELSE <<>>)
           ELSE <<>> ) \o ExpectedFrom(tokens, i + 1)

\* C9: a matched line gives a session record exactly when it has at least 11
\* fields and its command (the 11th field onward) holds the keyword and no
\* exclusion substring; pid, start time and CPU time are fields 2, 9 and 10;
\* other lines are skipped, sessions are numbered from 1 in line order, and
\* "No active Claude CLI command sessions found" is printed exactly when
\* lines matched and no session was retained.
C9_SessionRecords ==
    pc \in {"launch_sessions", "launch_shells"} =>
        LET qualifying == QualifyingLines
            fields == [k \in 1..Len(qualifying) |-> FieldsOf(qualifying[k])]
        IN  /\ Len(sessions) = Len(qualifying)
            /\ \A k \in 1..Len(sessions) :
                  /\ sessions[k].pid = fields[k][2]
                  /\ sessions[k].start_time = fields[k][9]
                  /\ sessions[k].cpu_time = fields[k][10]
                  /\ SplitWs(sessions[k].command, -1) = SubSeq(fields[k], 11, Len(fields[k]))
            /\ \A k \in 1..Len(launch_out) :
                  /\ launch_out[k].report.number = k
                  /\ launch_out[k].report.pid = sessions[k].pid
                  /\ launch_out[k].report.start_time = sessions[k].start_time
                  /\ launch_out[k].report.cpu_time = sessions[k].cpu_time
                  /\ launch_out[k].report.command = sessions[k].command
            /\ (pc = "launch_shells" => Len(launch_out) = Len(sessions))
            /\ (launch_msg = "No active Claude CLI command sessions found"
                   <=> (ps_stdout # <<>> /\ qualifying = <<>>))

C9_Witness ==
    /\ pc = "launch_shells"
    /\ Len(MatchedLines) = 2
    /\ Len(launch_out) = 1
    /\ ~Qualifies(MatchedLines[1])
    /\ launch_out[1].report.number = 1
    /\ launch_out[1].report.pid = <<"2">>
    /\ launch_out[1].report.start_time = <<"9", ":", "0", "2">>
    /\ launch_out[1].report.cpu_time = <<"0", ":", "0", "2">>
    /\ launch_out[1].report.command = <<"c", "l", "a", "u", "d", "e", " ", "-", "p", " ", "m", "y", "p", "r", "o", "j", " ", "-", "-", "d", "e", "b", "u", "g">>

\* C7: "Mode: Interactive (no arguments)" is reported for a session exactly
\* when no whitespace-delimited token of its command starts with "-".
C7_InteractiveIffNoFlagToken ==
    \A k \in 1..Len(launch_out) :
        launch_out[k].report.mode = "Interactive (no arguments)"
            <=> ~\E i \in 1..Len(TokensOf(k)) : StartsWith(TokensOf(k)[i], Dash)

\* C6: for any session command the interpretations printed are exactly those
\* of the recognised flags among its tokens, in token order, a flag's value
\* being the next token unless that starts with "-".
C6_FlagInterpretations ==
    \A k \in 1..Len(launch_out) :
        launch_out[k].report.detected = ExpectedFrom(TokensOf(k), 1)

\* The same, for the commands line 200 hands to the parser; "claude -p myproj
\* --debug" gives "Project mode: myproj" and "Debug mode: Enabled" only.
ParserAgreesWhereRun ==
    \A k \in 1..Len(launch_out) :
        /\ launch_out[k].report.mode = "Detected arguments"
              => launch_out[k].report.detected = ExpectedFrom(TokensOf(k), 1)
        /\ launch_out[k].report.command = <<"c", "l", "a", "u", "d", "e", " ", "-", "p", " ", "m", "y", "p", "r", "o", "j", " ", "-", "-", "d", "e", "b", "u", "g">>
              => launch_out[k].report.detected =
                     << [label |-> "Project mode", text |-> <<"m", "y", "p", "r", "o", "j">>],
                        [label |-> "Debug mode: Enabled", text |-> <<>>] >>
(***************************************************************************)
(* check_claude_launch_commands: parent shells and shell history           *)
(***************************************************************************)
MaxHist == 6

MaxShellLines == 6

ShellLimit == 5

HistoryTail == 1000

HistoryKeep == 5

W_ColonSpace == <<":", " ">>

\* lines 260-264
HistoryFiles == <<".zsh_history", ".bash_history", ".history">>

\* the lines a history file may hold
HistoryLines ==
    { <<"c", "l", "a", "u", "d", "e", " ", "c", "h", "a", "t">>,
      <<":", " ", "1", "7", ":", "0", ";", "c", "l", "a", "u", "d", "e", " ", "c", "h", "a", "t">>,
      <<"c", "l", "a", "u", "d", "e", " ", "-", "p", " ", "'", "f", "i", "x", ":", " ", "a", ";", " ", "b", "'">>,
      <<"c", "l", "a", "u", "d", "e", ";", " ", "l", "s">>,
      <<"l", "s">> }

\* the contents a history file may have: up to MaxHist times one line, or
\* two lines
HistoryContents ==
    { [i \in 1..n |-> a] : a \in HistoryLines, n \in 0..MaxHist }
        \cup { <<a, b>> : a \in HistoryLines, b \in HistoryLines }

\* tail -n
TailLines(lines, n) == SubSeq(lines, Max(1, Len(lines) - n + 1), Len(lines))

\* line 270: tail -1000 file | grep '^claude' | tail -5
HistoryPipeline(content) ==
    TailLines(SelectSeq(TailLines(content, HistoryTail),
                        LAMBDA line : StartsWith(line, W_claude)),
              HistoryKeep)

\* lines 277-279: line.split(';', 1)[1] when the line has ': ' and ';'
CleanHistoryLine(line) ==
    IF Contains(line, W_ColonSpace) /\ Contains(line, <<";">>)
    THEN SubSeq(line, FindChar(line, ";", 1) + 1, Len(line))
    ELSE line

\* lines 274-280: the entries printed for the lines of stdout
PrintedHistory(lines) ==
    LET kept == SelectSeq(lines, LAMBDA line : Strip(line) # <<>>)
    IN  [k \in 1..Len(kept) |-> Strip(CleanHistoryLine(kept[k]))]

InitHist ==
    /\ pc = "launch_shells"
    /\ shells_out = 0
    /\ hist_i = 0
    /\ found_history = FALSE
    /\ hist_out = <<>>
    /\ hist_none = FALSE
    /\ IdleButHist

\* lines 248-254: at most 5 of the parent shell lines are printed
LaunchParentShells ==
    /\ pc = "launch_shells"
    /\ \E n \in 0..MaxShellLines : shells_out' = Min(n, ShellLimit)
    /\ pc' = "launch_history"
    /\ hist_i' = 1
    /\ UNCHANGED <<found_history, hist_out, hist_none, others_hist>>

\* line 268: history_file.exists() is outside the try: a home directory the
\* user may not search makes it raise PermissionError
LaunchHistoryDenied ==
    /\ pc = "launch_history"
    /\ hist_i <= Len(HistoryFiles)
    /\ pc' = "launch_raised"
    /\ UNCHANGED <<vars_hist, others_hist>>

\* lines 267-282: one iteration of the loop over the history files
LaunchHistoryFile ==
    /\ pc = "launch_history"
    /\ hist_i <= Len(HistoryFiles)
    /\ \E exists \in BOOLEAN, content \in HistoryContents, ran_ok \in BOOLEAN :
          LET stdout == IF ran_ok THEN Strip(Unlines(HistoryPipeline(content))) ELSE <<>>
              lines == SplitChar(stdout, "\n")
          IN  IF exists /\ stdout # <<>>
              THEN /\ found_history' = TRUE
                   /\ hist_out' = Append(hist_out,
                          [file |-> HistoryFiles[hist_i], matched |-> lines,
                           printed |-> PrintedHistory(lines)])
              ELSE UNCHANGED <<found_history, hist_out>>
    /\ hist_i' = hist_i + 1
    /\ UNCHANGED <<pc, shells_out, hist_none, others_hist>>

\* lines 284-285
LaunchHistoryDone ==
    /\ pc = "launch_history"
    /\ hist_i > Len(HistoryFiles)
    /\ hist_none' = ~found_history
    /\ pc' = "launch_done"
    /\ UNCHANGED <<shells_out, hist_i, found_history, hist_out, others_hist>>

NextHist ==
    LaunchParentShells \/ LaunchHistoryDenied \/ LaunchHistoryFile \/ LaunchHistoryDone

SpecHist == InitHist /\ [][NextHist]_vars

\* C10: every history entry printed is a whole command starting with
\* "claude" (cleaning removes a timestamp prefix, never part of the command),
\* at most 5 per file, and the "No recent Claude commands found in shell
\* history" line is printed exactly when no existing file gave a match.
C10_HistoryEntriesWhole ==
    /\ \A f \in 1..Len(hist_out) :
          /\ Len(hist_out[f].printed) <= 5
          /\ \A k \in 1..Len(hist_out[f].printed) :
                /\ StartsWith(hist_out[f].printed[k], W_claude)
                /\ hist_out[f].printed[k] = Strip(hist_out[f].matched[k])
    /\ pc = "launch_done" => (hist_none <=> hist_out = <<>>)

\* What does hold of the printed entries: at most 5 per file, each the text
\* after the first ";" of a matched line holding ": " and ";", else the line.
HistoryEntriesAsCleaned ==
    /\ \A f \in 1..Len(hist_out) :
          /\ Len(hist_out[f].printed) <= 5
          /\ Len(hist_out[f].printed) = Len(hist_out[f].matched)
          /\ \A k \in 1..Len(hist_out[f].printed) :
                StartsWith(hist_out[f].matched[k], W_claude)
    /\ pc = "launch_done" => (hist_none <=> hist_out = <<>>)
(***************************************************************************)
(* check_claude_cli                                                        *)
(***************************************************************************)
\* lines 46-50
ConfigPaths == <<"~/.claude/config.json", "~/.config/claude/config.json", "/etc/claude/config.json">>

\* lines 66-71
CliDirs == <<"/usr/local/bin/claude", "/usr/bin/claude", "/opt/claude/bin/claude", "~/.local/bin/claude">>

\* what a candidate configuration path may be: missing; in a directory the
\* user may not search (stat fails with EACCES); a file that cannot be
\* opened; a file that is not JSON; a JSON list; a JSON object
ConfigStates ==
    { [kind |-> k, items |-> <<>>] :
          k \in {"absent", "denied", "unreadable", "malformed", "list"} }
        \cup
    { [kind |-> "object", items |-> << <<"a", "1">>, <<"b", "2">> >>],
      [kind |-> "object", items |-> << <<"api_key", "sk-secret">> >>] }

\* Path.exists(): TRUE, FALSE, or "raise" for the PermissionError that stat
\* gives under a directory the user may not search
PathExists(kind) ==
    IF kind = "denied" THEN "raise" ELSE IF kind = "absent" THEN "no" ELSE "yes"

\* lines 55-61: what is printed after "Config found" for a file that exists
ConfigReport(i, state) ==
    IF state.kind = "object"
    THEN [what |-> "Config keys", path |-> ConfigPaths[i],
          data |-> [k \in 1..Len(state.items) |-> state.items[k][1]]]
    ELSE [what |-> "Could not read config", path |-> ConfigPaths[i],
          data |-> << state.kind >>]

InitCli ==
    /\ pc = "cli_which"
    /\ claude_path \in {"", "/usr/local/bin/claude"}
    /\ config_files \in [1..Len(ConfigPaths) -> ConfigStates]
    /\ cfg_i = 0
    /\ cli_out = <<>>
    /\ IdleButCli

\* lines 36-43, 62-63
CliWhich ==
    /\ pc = "cli_which"
    /\ IF claude_path # ""
       THEN /\ \E code \in {0, 1} :
                  cli_out' =
                      << [what |-> "Claude CLI found at", path |-> claude_path, data |-> <<>>] >>
                      \o ( IF code = 0
                           THEN << [what |-> "Version", path |-> "", data |-> <<>>] >>
                           ELSE <<>> )
            /\ pc' = "cli_config"
            /\ cfg_i' = 1
       ELSE /\ cli_out' =
                  << [what |-> "Claude CLI not found in PATH", path |-> "", data |-> <<>>] >>
            /\ pc' = "cli_dirs"
            /\ cfg_i' = cfg_i
    /\ UNCHANGED <<claude_path, config_files, others_cli>>

\* lines 52-61: one iteration of the loop over the configuration paths
CliConfig ==
    /\ pc = "cli_config"
    /\ cfg_i <= Len(ConfigPaths)
    /\ LET state == config_files[cfg_i]
           exists == PathExists(state.kind)
       IN  IF exists = "raise"
           THEN pc' = "cli_raised" /\ UNCHANGED <<cfg_i, cli_out>>
           ELSE /\ cli_out' =
                      IF exists = "yes"
                      THEN cli_out
                           \o << [what |-> "Config found", path |-> ConfigPaths[cfg_i], data |-> <<>>],
                                 ConfigReport(cfg_i, state) >>
                      ELSE cli_out
                /\ cfg_i' = cfg_i + 1
                /\ pc' = IF cfg_i = Len(ConfigPaths) THEN "cli_dirs" ELSE "cli_config"
    /\ UNCHANGED <<claude_path, config_files, others_cli>>

\* lines 73-75 from the k-th directory on: the lines printed, and whether
\* Path(cli_dir).exists() raised
RECURSIVE ScanCliDirs(_, _)
ScanCliDirs(dirs, k) ==
    IF k > Len(CliDirs) THEN [printed |-> <<>>, raised |-> FALSE]
    ELSE IF PathExists(dirs[k]) = "raise" THEN [printed |-> <<>>, raised |-> TRUE]
    ELSE LET rest == ScanCliDirs(dirs, k + 1)
         IN  [printed |->
                  ( IF PathExists(dirs[k]) = "yes"
                    THEN << [what |-> "Found CLI binary at", path |-> CliDirs[k], data |-> <<>>] >>
                    ELSE <<>> ) \o rest.printed,
              raised |-> rest.raised]

\* lines 66-75
CliInstallDirs ==
    /\ pc = "cli_dirs"
    /\ \E dirs \in [1..Len(CliDirs) -> {"absent", "present", "denied"}] :
          LET scan == ScanCliDirs(dirs, 1)
          IN  /\ cli_out' = cli_out \o scan.printed
              /\ pc' = IF scan.raised THEN "cli_raised" ELSE "cli_done"
    /\ UNCHANGED <<claude_path, config_files, cfg_i, others_cli>>

NextCli == CliWhich \/ CliConfig \/ CliInstallDirs

SpecCli == InitCli /\ [][NextCli]_vars

\* C5: every candidate configuration file that exists is reported, with its
\* top-level key names or the error and never a value, whether or not the
\* "claude" executable was found on the search path.
C5_ConfigReportedRegardless ==
    pc \in {"cli_dirs", "cli_done"} =>
        \A i \in 1..Len(ConfigPaths) :
            config_files[i].kind \notin {"absent", "denied"} =>
                \E k \in 1..(Len(cli_out) - 1) :
                    /\ cli_out[k].what = "Config found"
                    /\ cli_out[k].path = ConfigPaths[i]
                    /\ cli_out[k + 1].what \in {"Config keys", "Could not read config"}
                    /\ \A n \in 1..Len(cli_out[k + 1].data) :
                          \A m \in 1..Len(config_files[i].items) :
                              cli_out[k + 1].data[n] # config_files[i].items[m][2]

\* What does hold: the files are reported that way when the executable was
\* found, and not looked at when it was not.
ConfigReportedWhenCliFound ==
    pc \in {"cli_dirs", "cli_done"} =>
        \A i \in 1..Len(ConfigPaths) :
            config_files[i].kind \notin {"absent", "denied"} =>
                ( claude_path # "" <=>
                    \E k \in 1..(Len(cli_out) - 1) :
                        /\ cli_out[k].what = "Config found"
                        /\ cli_out[k].path = ConfigPaths[i]
                        /\ cli_out[k + 1].what \in {"Config keys", "Could not read config"} )
(***************************************************************************)
(* check_claude_sdk                                                        *)
(***************************************************************************)
\* lines 84-90
SdkPackages == <<"claude_code", "claude_sdk", "anthropic_claude", "anthropic", "claudecode">>

\* what the import system may hold for a candidate: nothing; a package that
\* imports; a package whose import raises; an entry that makes find_spec
\* itself raise (a module in sys.modules whose __spec__ is None gives
\* ValueError)
PackageStates == {"absent", "importable", "import_fails", "lookup_raises"}

\* lines 95-106: what is printed for a package find_spec found
PackageReport(package, status) ==
    << [what |-> "Python package found", package |-> package] >>
    \o ( IF status = "importable"
         THEN << [what |-> "Location", package |-> package] >>
         ELSE << [what |-> "Could not load module", package |-> package] >> )

InitSdk ==
    /\ pc = "sdk_probe"
    /\ packages \in [1..Len(SdkPackages) -> PackageStates]
    /\ sdk_i = 1
    /\ probed = <<>>
    /\ found_sdks = <<>>
    /\ sdk_out = <<>>
    /\ IdleButSdk

\* lines 93-106, 110-111: one iteration of the loop over the candidates
SdkProbe ==
    /\ pc = "sdk_probe"
    /\ sdk_i <= Len(SdkPackages)
    /\ probed' = Append(probed, SdkPackages[sdk_i])
    /\ LET status == packages[sdk_i]
       IN  IF status = "lookup_raises"
           THEN \* lines 110-111: the try around the whole loop catches it
                /\ sdk_out' = Append(sdk_out,
                       [what |-> "Error checking Python packages",
                        package |-> SdkPackages[sdk_i]])
                /\ pc' = "sdk_pip"
                /\ UNCHANGED <<sdk_i, found_sdks>>
           ELSE /\ IF status = "absent"
                   THEN UNCHANGED <<found_sdks, sdk_out>>
                   ELSE /\ found_sdks' = Append(found_sdks, SdkPackages[sdk_i])
                        /\ sdk_out' = sdk_out \o PackageReport(SdkPackages[sdk_i], status)
                /\ sdk_i' = sdk_i + 1
                /\ pc' = pc
    /\ UNCHANGED <<packages, others_sdk>>

\* lines 108-109
SdkNotFound ==
    /\ pc = "sdk_probe"
    /\ sdk_i > Len(SdkPackages)
    /\ sdk_out' =
          IF found_sdks = <<>>
          THEN Append(sdk_out, [what |-> "No Claude SDK Python packages found", package |-> ""])
          ELSE sdk_out
    /\ pc' = "sdk_pip"
    /\ UNCHANGED <<packages, sdk_i, probed, found_sdks, others_sdk>>

\* lines 114-117
SdkPipList ==
    /\ pc = "sdk_pip"
    /\ \E listed \in BOOLEAN :
          sdk_out' = sdk_out
              \o << [what |-> "ran pip list", package |-> ""] >>
              \o ( IF listed THEN << [what |-> "Installed pip packages", package |-> ""] >>
                   ELSE <<>> )
    /\ pc' = "sdk_npm"
    /\ UNCHANGED <<packages, sdk_i, probed, found_sdks, others_sdk>>

\* lines 120-123
SdkNpmList ==
    /\ pc = "sdk_npm"
    /\ \E listed \in BOOLEAN :
          sdk_out' = sdk_out
              \o << [what |-> "ran npm list", package |-> ""] >>
              \o ( IF listed THEN << [what |-> "Global npm packages", package |-> ""] >>
                   ELSE <<>> )
    /\ pc' = "sdk_done"
    /\ UNCHANGED <<packages, sdk_i, probed, found_sdks, others_sdk>>

NextSdk == SdkProbe \/ SdkNotFound \/ SdkPipList \/ SdkNpmList

SpecSdk == InitSdk /\ [][NextSdk]_vars

Printed(what) == \E k \in 1..Len(sdk_out) : sdk_out[k].what = what

SdkScanEndsAtFailedLookup ==
    pc = "sdk_done" =>
          LET raising == { i \in 1..Len(SdkPackages) : packages[i] = "lookup_raises" }
              last == IF raising = {} THEN Len(SdkPackages)
                      ELSE CHOOSE i \in raising : \A j \in raising : i <= j
          IN  /\ probed = SubSeq(SdkPackages, 1, last)
              /\ Printed("Error checking Python packages") <=> raising # {}
              /\ Printed("No Claude SDK Python packages found")
                    <=> (raising = {} /\ \A i \in 1..Len(SdkPackages) : packages[i] = "absent")
              /\ Printed("ran pip list") /\ Printed("ran npm list")
(***************************************************************************)
(* main                                                                    *)
(***************************************************************************)
\* lines 383-391
Checks ==
    << "check_claude_cli", "check_claude_sdk", "check_environment", "check_processes",
       "check_claude_launch_commands", "check_docker", "check_python_runtime",
       "check_network_connections", "check_file_system" >>

\* the directories whose entries the checks stat and that may be closed to
\* the user (no search permission)
Dirs == {"~", "~/.claude", "~/.config", "~/.local", "/etc/claude", "/opt/claude"}

\* For each check, the directories searched by a Path.exists() call that is
\* in no try block: one set of directories per call.  Path.exists() lets the
\* PermissionError of stat through (it swallows only ENOENT, ENOTDIR, EBADF
\* and ELOOP).
\*   check_claude_cli, line 53 (reached when "claude" is on the search path)
\*   and line 74; check_claude_launch_commands, line 268; check_file_system,
\*   line 357.  Every other call that can fail is run_command, which returns,
\*   or is inside a try (lines 55-61, 82-111, 269-282, 358-365).
UnguardedStats(check) ==
    IF check = "check_claude_cli"
    THEN ( IF on_path
           THEN { {"~", "~/.claude"}, {"~", "~/.config"}, {"/etc/claude"} }
           ELSE {} )
         \cup { {"/opt/claude"}, {"~", "~/.local"} }
    ELSE IF check = "check_claude_launch_commands" THEN { {"~"} }
    ELSE IF check = "check_file_system" THEN { {"~"}, {"~", "~/.config"} }
    ELSE {}

\* whether the check ends with an exception that nothing catches
Raises(check) == \E searched \in UnguardedStats(check) : searched \cap unsearchable # {}

InitMain ==
    /\ pc = "main"
    /\ unsearchable \in SUBSET Dirs
    /\ on_path \in BOOLEAN
    /\ ran = <<>>
    /\ IdleButMain

\* lines 369-380: the banner and the system information
MainBanner ==
    /\ pc = "main"
    /\ pc' = Checks[1]
    /\ UNCHANGED <<vars_main, others_main>>

\* the k-th call of lines 383-391
Call(k) ==
    /\ pc = Checks[k]
    /\ ran' = Append(ran, Checks[k])
    /\ pc' = IF Raises(Checks[k]) THEN "main_raised"
             ELSE IF k < Len(Checks) THEN Checks[k + 1]
             ELSE "summary"
    /\ UNCHANGED <<unsearchable, on_path, others_main>>

\* line 383
CallCheckClaudeCli == Call(1)

\* line 384
CallCheckClaudeSdk == Call(2)

\* line 385
CallCheckEnvironment == Call(3)

\* line 386
CallCheckProcesses == Call(4)

\* line 387
CallCheckClaudeLaunchCommands == Call(5)

\* line 388
CallCheckDocker == Call(6)

\* line 389
CallCheckPythonRuntime == Call(7)

\* line 390
CallCheckNetworkConnections == Call(8)

\* line 391
CallCheckFileSystem == Call(9)

\* lines 394-402
MainSummary ==
    /\ pc = "summary"
    /\ pc' = "main_done"
    /\ UNCHANGED <<vars_main, others_main>>

NextMain ==
    \/ MainBanner
    \/ CallCheckClaudeCli
    \/ CallCheckClaudeSdk
    \/ CallCheckEnvironment
    \/ CallCheckProcesses
    \/ CallCheckClaudeLaunchCommands
    \/ CallCheckDocker
    \/ CallCheckPythonRuntime
    \/ CallCheckNetworkConnections
    \/ CallCheckFileSystem
    \/ MainSummary

SpecMain == InitMain /\ [][NextMain]_vars

\* C4: every run of main executes the nine checks once each in the fixed
\* order and then reaches the closing summary; no failure inside a check
\* stops the run before it.
C4_AlwaysReachesSummary ==
    /\ pc # "main_raised"
    /\ pc \in {"summary", "main_done"} => ran = Checks

\* What does hold: the checks run in the fixed order, and the summary
\* follows when every directory is open to the user.
ChecksRunInOrder ==
    /\ ran = SubSeq(Checks, 1, Len(ran))
    /\ pc \in {"summary", "main_done"} => ran = Checks
    /\ (unsearchable = {} => pc # "main_raised")

====
